---- MODULE Spec2Model ----
(***************************************************************************)
(* A model of the OCPP message router of the CSMS manager                  *)
(* (manager/mqtt/router.go): the two route tables built by NewV16Router    *)
(* and NewV201Router and the dispatch done by Router.Route for Call,       *)
(* CallResult and CallError envelopes.                                     *)
(*                                                                         *)
(* Go values are modelled as follows.                                      *)
(*   error            a sequence of layers, outermost first; each layer is *)
(*                    [type, info]; the nil error is the empty sequence.   *)
(*                    fmt.Errorf("..%w") prepends a layer, errors.As walks *)
(*                    the layers.                                          *)
(*   payload (bytes)  [schema, decodes, body]: the one schema the bytes    *)
(*                    conform to ("none" when they conform to no schema),  *)
(*                    whether json.Unmarshal into the typed value          *)
(*                    succeeds, and the content carried.                   *)
(*   typed value      [type, body].                                        *)
(***************************************************************************)
EXTENDS Integers, Sequences, FiniteSets, TLC

VARIABLES CallRoutes, CallResultRoutes, pc, chargeStationId, message,
          schemaFS, handlerCalls, emitted, logged, err,
          workers, delivered, observed

\* the state of the pool of workers that call Route concurrently
poolVars == <<workers, delivered, observed>>

\* the state of the single worker
workerVars == <<pc, chargeStationId, message, schemaFS, handlerCalls, emitted,
                logged, err>>

vars == <<CallRoutes, CallResultRoutes, pc, chargeStationId, message,
          schemaFS, handlerCalls, emitted, logged, err,
          workers, delivered, observed>>

(***************************************************************************)
(* Bounds of the model                                                     *)
(***************************************************************************)
NumStations == 2
NumMessageIds == 2
NumStates == 2
NumBodies == 2
MaxMissingSchemas == 1
NumClockTicks == 3
MaxZoneHalfHours == 2
NumWorkers == 2
MaxDeliveries == 3

ChargeStationIds == 1..NumStations
MessageIds == 1..NumMessageIds
\* State is `any`: 0 stands for nil, the others for blobs supplied by a caller.
NilState == 0
States == 0..NumStates
NilBody == 0
Bodies == 1..NumBodies

(***************************************************************************)
(* Message types, OCPP error codes                                         *)
(***************************************************************************)
MessageTypeCall == "Call"
MessageTypeCallResult == "CallResult"
MessageTypeCallError == "CallError"
\* a MessageType value that is none of the three constants
MessageTypeOther == "Other"
MessageTypes == {MessageTypeCall, MessageTypeCallResult, MessageTypeCallError,
                 MessageTypeOther}

ErrorNotImplemented == "NotImplemented"
ErrorFormatViolation == "FormatViolation"
ErrorPropertyConstraintViolation == "PropertyConstraintViolation"
ErrorInternalError == "InternalError"

(***************************************************************************)
(* Errors                                                                  *)
(***************************************************************************)
NoError == <<>>

\* errors.New(text) / fmt.Errorf(text) without a wrapped error
ErrorsNew(text) == <<[type |-> "errorString", info |-> text]>>

\* fmt.Errorf("text: %w", e): the chain of e stays reachable through Unwrap
ErrorfW(text, e) == <<[type |-> "wrapError", info |-> text]>> \o e

\* fmt.Errorf("text: %v", e): only the text of e is kept, the chain is cut
ErrorfV(text, e) == <<[type |-> "errorString", info |-> text]>>

\* mqtt.NewError(code, e): an *mqtt.Error carrying the OCPP code, wrapping e
NewError(code, e) == <<[type |-> "mqtt.Error", info |-> code]>> \o e

\* errors.As(e, &target) for a target of type `type`: false on the nil
\* interface, else true when some error of the chain has that type
ErrorsAs(e, type) == e # NoError /\ \E i \in 1..Len(e) : e[i].type = type

\* the OCPP code an error carries: the code of the first *mqtt.Error of its
\* chain, "none" when the chain holds no *mqtt.Error
RECURSIVE ErrorCode(_)
ErrorCode(e) ==
    IF e = NoError THEN "none"
    ELSE IF Head(e).type = "mqtt.Error" THEN Head(e).info
    ELSE ErrorCode(Tail(e))

\* the innermost error of a chain (its root cause), "none" for nil
RootCause(e) == IF e = NoError THEN "none" ELSE e[Len(e)].type

(***************************************************************************)
(* Payloads, typed values, schema validation, JSON conversion              *)
(***************************************************************************)
NilPayload == [schema |-> "none", decodes |-> FALSE, body |-> NilBody]
NilValue == [type |-> "nil", body |-> NilBody]

\* schemas.Validate(payload, schemaFS, path): the schema must load from the
\* file system, then the payload must conform to it
Validate(payload, fs, path) ==
    IF path \notin fs THEN ErrorsNew("SchemaLoadError")
    ELSE IF payload.schema # path
         THEN <<[type |-> "jsonschema.ValidationError", info |-> path]>>
         ELSE NoError

\* json.Unmarshal(payload, &v) for v produced by a factory of type `type`
UnmarshalErr(payload) ==
    IF payload.decodes THEN NoError ELSE ErrorsNew("UnmarshalError")

Unmarshal(payload, type) ==
    IF payload.decodes THEN [type |-> type, body |-> payload.body]
    ELSE [type |-> type, body |-> NilBody]

\* json.Marshal(resp): resp is [type, body, schema, marshals, status,
\* currentTime]; the bytes conform to resp.schema and carry the fields of resp
MarshalErr(resp) ==
    IF resp.marshals THEN NoError ELSE ErrorsNew("MarshalError")

Marshal(resp) ==
    IF resp.marshals
    THEN [schema |-> resp.schema, decodes |-> TRUE, body |-> resp.body,
          status |-> resp.status, currentTime |-> resp.currentTime]
    ELSE NilPayload

(***************************************************************************)
(* Route tables                                                            *)
(***************************************************************************)
\* a handlers.CallRoute
CallRoute(newRequest, requestSchema, responseSchema, handler) ==
    [NewRequest |-> newRequest, RequestSchema |-> requestSchema,
     ResponseSchema |-> responseSchema, Handler |-> handler]

\* a handlers.CallResultRoute; a field left out of the composite literal has
\* Go's zero value, "" for a string
CallResultRoute(newRequest, newResponse, requestSchema, responseSchema, handler) ==
    [NewRequest |-> newRequest, NewResponse |-> newResponse,
     RequestSchema |-> requestSchema, ResponseSchema |-> responseSchema,
     Handler |-> handler]

\* a handler value: its type and the fields its composite literal sets, each
\* with the constructor parameter or local it is set from
HandlerValue(type, fields) == [type |-> type, fields |-> fields]

\* the call makers the constructors build: the Actions map of each, from
\* request type to the Action (and, for DataTransfer, the VendorId) it is
\* sent under
dataTransferCallMaker ==
    [type |-> "DataTransferCallMaker",
     Actions |-> {<<"ocpp201.CertificateSignedRequestJson",
                    "org.openchargealliance.iso15118pnc", "CertificateSigned">>}]

callMaker ==
    [type |-> "BasicCallMaker",
     Actions |-> {<<"ocpp201.CertificateSignedRequestJson", "", "CertificateSigned">>}]

\* a variant of V16DataTransferCallRoutes whose Authorize entry takes the
\* v1.6 request
V16DataTransferCallRoutesV16Authorize ==
    "org.openchargealliance.iso15118pnc" :>
      ( "Authorize" :> CallRoute("ocpp16.AuthorizeJson",
            "ocpp16/Authorize.json", "ocpp201/AuthorizeResponse.json",
            HandlerValue("handlers201.AuthorizeHandler",
                {<<"TokenStore", "tokenStore">>, <<"CertificateValidationService", "certValidationService">>}))
     @@ "GetCertificateStatus" :> CallRoute("ocpp201.GetCertificateStatusRequestJson",
            "ocpp201/GetCertificateStatusRequest.json",
            "ocpp201/GetCertificateStatusResponse.json",
            HandlerValue("handlers201.GetCertificateStatusHandler",
                {<<"CertificateValidationService", "certValidationService">>}))
     @@ "SignCertificate" :> CallRoute("ocpp201.SignCertificateRequestJson",
            "ocpp201/SignCertificateRequest.json",
            "ocpp201/SignCertificateResponse.json",
            HandlerValue("handlers201.SignCertificateHandler",
                {<<"CertificateSignerService", "certSignerService">>, <<"CallMaker", "dataTransferCallMaker">>}))
     @@ "Get15118EVCertificate" :> CallRoute("ocpp201.Get15118EVCertificateRequestJson",
            "ocpp201/Get15118EVCertificateRequest.json",
            "ocpp201/Get15118EVCertificateResponse.json",
            HandlerValue("handlers201.Get15118EvCertificateHandler",
                {<<"EvCertificateProvider", "certProviderService">>})) )

\* the tunnel table of the v1.6 DataTransfer handler, keyed by VendorId then
\* MessageId
V16DataTransferCallRoutes ==
    "org.openchargealliance.iso15118pnc" :>
      ( "Authorize" :> CallRoute("ocpp201.AuthorizeRequestJson",
            "ocpp201/AuthorizeRequest.json", "ocpp201/AuthorizeResponse.json",
            HandlerValue("handlers201.AuthorizeHandler",
                {<<"TokenStore", "tokenStore">>, <<"CertificateValidationService", "certValidationService">>}))
     @@ "GetCertificateStatus" :> CallRoute("ocpp201.GetCertificateStatusRequestJson",
            "ocpp201/GetCertificateStatusRequest.json",
            "ocpp201/GetCertificateStatusResponse.json",
            HandlerValue("handlers201.GetCertificateStatusHandler",
                {<<"CertificateValidationService", "certValidationService">>}))
     @@ "SignCertificate" :> CallRoute("ocpp201.SignCertificateRequestJson",
            "ocpp201/SignCertificateRequest.json",
            "ocpp201/SignCertificateResponse.json",
            HandlerValue("handlers201.SignCertificateHandler",
                {<<"CertificateSignerService", "certSignerService">>, <<"CallMaker", "dataTransferCallMaker">>}))
     @@ "Get15118EVCertificate" :> CallRoute("ocpp201.Get15118EVCertificateRequestJson",
            "ocpp201/Get15118EVCertificateRequest.json",
            "ocpp201/Get15118EVCertificateResponse.json",
            HandlerValue("handlers201.Get15118EvCertificateHandler",
                {<<"EvCertificateProvider", "certProviderService">>})) )

\* the tunnel table of the v1.6 DataTransfer result handler
V16DataTransferCallResultRoutes ==
    "org.openchargealliance.iso15118pnc" :>
      ( "CertificateSigned" :> CallResultRoute("ocpp201.CertificateSignedRequestJson",
            "ocpp201.CertificateSignedResponseJson",
            "ocpp201/CertificateSignedRequest.json",
            "ocpp201/CertificateSignedResponse.json",
            HandlerValue("handlers201.CertificateSignedResultHandler",
                {})) )

NewV16Router ==
    [CallRoutes |->
        "BootNotification" :> CallRoute("ocpp16.BootNotificationJson",
            "ocpp16/BootNotification.json", "ocpp16/BootNotificationResponse.json",
            HandlerValue("handlers16.BootNotificationHandler",
                {<<"Clock", "clk">>, <<"HeartbeatInterval", "heartbeatInterval">>}))
     @@ "Heartbeat" :> CallRoute("ocpp16.HeartbeatJson",
            "ocpp16/Heartbeat.json", "ocpp16/HeartbeatResponse.json",
            HandlerValue("handlers16.HeartbeatHandler",
                {<<"Clock", "clk">>}))
     @@ "StatusNotification" :> CallRoute("ocpp16.StatusNotificationJson",
            "ocpp16/StatusNotification.json", "ocpp16/StatusNotificationResponse.json",
            HandlerValue("handlers16.StatusNotificationHandler",
                {}))
     @@ "Authorize" :> CallRoute("ocpp16.AuthorizeJson",
            "ocpp16/Authorize.json", "ocpp16/AuthorizeResponse.json",
            HandlerValue("handlers16.AuthorizeHandler",
                {<<"TokenStore", "tokenStore">>}))
     @@ "StartTransaction" :> CallRoute("ocpp16.StartTransactionJson",
            "ocpp16/StartTransaction.json", "ocpp16/StartTransactionResponse.json",
            HandlerValue("handlers16.StartTransactionHandler",
                {<<"Clock", "clk">>, <<"TokenStore", "tokenStore">>, <<"TransactionStore", "transactionStore">>}))
     @@ "StopTransaction" :> CallRoute("ocpp16.StopTransactionJson",
            "ocpp16/StopTransaction.json", "ocpp16/StopTransactionResponse.json",
            HandlerValue("handlers16.StopTransactionHandler",
                {<<"Clock", "clk">>, <<"TransactionStore", "transactionStore">>}))
     @@ "MeterValues" :> CallRoute("ocpp16.MeterValuesJson",
            "ocpp16/MeterValues.json", "ocpp16/MeterValuesResponse.json",
            HandlerValue("handlers16.MeterValuesHandler",
                {<<"TransactionStore", "transactionStore">>}))
     @@ "DataTransfer" :> CallRoute("ocpp16.DataTransferJson",
            "ocpp16/DataTransfer.json", "ocpp16/DataTransferResponse.json",
            HandlerValue("handlers16.DataTransferHandler",
                {<<"SchemaFS", "schemaFS">>, <<"CallRoutes", "V16DataTransferCallRoutes">>})),
     CallResultRoutes |->
        "DataTransfer" :> CallResultRoute("ocpp16.DataTransferJson",
            "ocpp16.DataTransferResponseJson", "", "",
            HandlerValue("handlers16.DataTransferResultHandler",
                {<<"SchemaFS", "schemaFS">>, <<"CallResultRoutes", "V16DataTransferCallResultRoutes">>}))]

NewV201Router ==
    [CallRoutes |->
        "BootNotification" :> CallRoute("ocpp201.BootNotificationRequestJson",
            "ocpp201/BootNotificationRequest.json",
            "ocpp201/BootNotificationResponse.json",
            HandlerValue("handlers201.BootNotificationHandler",
                {<<"Clock", "clk">>, <<"HeartbeatInterval", "heartbeatInterval">>}))
     @@ "Heartbeat" :> CallRoute("ocpp201.HeartbeatRequestJson",
            "ocpp201/HeartbeatRequest.json", "ocpp201/HeartbeatResponse.json",
            HandlerValue("handlers201.HeartbeatHandler",
                {<<"Clock", "clk">>}))
     @@ "StatusNotification" :> CallRoute("ocpp201.StatusNotificationRequestJson",
            "ocpp201/StatusNotificationRequest.json",
            "ocpp201/StatusNotificationResponse.json",
            HandlerValue("handlers201.StatusNotificationHandler",
                {}))
     @@ "Authorize" :> CallRoute("ocpp201.AuthorizeRequestJson",
            "ocpp201/AuthorizeRequest.json", "ocpp201/AuthorizeResponse.json",
            HandlerValue("handlers201.AuthorizeHandler",
                {<<"TokenStore", "tokenStore">>, <<"CertificateValidationService", "certValidationService">>}))
     @@ "TransactionEvent" :> CallRoute("ocpp201.TransactionEventRequestJson",
            "ocpp201/TransactionEventRequest.json",
            "ocpp201/TransactionEventResponse.json",
            HandlerValue("handlers201.TransactionEventHandler",
                {<<"TransactionStore", "transactionStore">>, <<"TariffService", "tariffService">>}))
     @@ "GetCertificateStatus" :> CallRoute("ocpp201.GetCertificateStatusRequestJson",
            "ocpp201/GetCertificateStatusRequest.json",
            "ocpp201/GetCertificateStatusResponse.json",
            HandlerValue("handlers201.GetCertificateStatusHandler",
                {<<"CertificateValidationService", "certValidationService">>}))
     @@ "SignCertificate" :> CallRoute("ocpp201.SignCertificateRequestJson",
            "ocpp201/SignCertificateRequest.json",
            "ocpp201/SignCertificateResponse.json",
            HandlerValue("handlers201.SignCertificateHandler",
                {<<"CertificateSignerService", "certSignerService">>, <<"CallMaker", "callMaker">>}))
     @@ "Get15118EVCertificate" :> CallRoute("ocpp201.Get15118EVCertificateRequestJson",
            "ocpp201/Get15118EVCertificateRequest.json",
            "ocpp201/Get15118EVCertificateResponse.json",
            HandlerValue("handlers201.Get15118EvCertificateHandler",
                {<<"EvCertificateProvider", "certProviderService">>})),
     CallResultRoutes |->
        "CertificateSigned" :> CallResultRoute("ocpp201.CertificateSignedRequestJson",
            "ocpp201.CertificateSignedResponseJson",
            "ocpp201/CertificateSignedRequest.json",
            "ocpp201/CertificateSignedResponse.json",
            HandlerValue("handlers201.CertificateSignedResultHandler",
                {}))]

Routers == {NewV16Router, NewV201Router}

(***************************************************************************)
(* Handlers and the emitter: interfaces whose implementations are chosen   *)
(* by the caller; what they return is an input of a Route invocation.      *)
(***************************************************************************)
\* a typed response: besides type and body, the fields the modelled handlers
\* set: status ("" when the response has none) and currentTime (<<>> when the
\* response has none)
NilResponse ==
    [type |-> "nil", body |-> NilBody, schema |-> "none", marshals |-> TRUE,
     status |-> "", currentTime |-> <<>>]

\* what a call handler may return: no response, a response whose JSON
\* conforms to the response schema, one whose JSON violates it, one
\* json.Marshal rejects; each with or without an error
HandlerOutcomes ==
    [resp : {"nil"}, body : {NilBody}, err : BOOLEAN]
    \cup
    [resp : {"valid", "invalid", "unmarshalable"}, body : Bodies, err : BOOLEAN]

\* what a result handler may return: an error or nil, never a response
ResultHandlerOutcomes == [resp : {"nil"}, body : {NilBody}, err : BOOLEAN]

\* what emitter.Emit may return: nil (TRUE) or an error (FALSE)
EmitOutcomes == BOOLEAN

\* what TokenStore.FindToken may return: a token or nil (tok), with or
\* without an error (err)
FindTokenOutcomes == [tok : BOOLEAN, err : BOOLEAN]

\* Times: a time.Time is an instant, in minutes since 2023-06-15T00:00Z, and
\* the offset of its zone from UTC in minutes (seconds are not modelled).
\* The instants start at the one of TestHeartbeatHandler and advance in
\* steps of 5 hours, which crosses midnight; the zones are the half-hour
\* offsets up to MaxZoneHalfHours either side of UTC.
TestNow == [unix |-> 14 * 60 + 5, offset |-> 60]

Times ==
    [unix : {TestNow.unix + 300 * k : k \in 0..NumClockTicks},
     offset : {30 * k : k \in -MaxZoneHalfHours..MaxZoneHalfHours}]

\* what the injected clock's Now() may return
ClockOutcomes == [now : Times]

HeartbeatHandlers == {"handlers16.HeartbeatHandler", "handlers201.HeartbeatHandler"}

\* the handler and emitter behaviours that can bear on the routing of m by
\* router r: for a Call, what its call handler returns (for the v1.6
\* Authorize handler, what the token store it consults returns; for a
\* Heartbeat handler, what the clock it reads returns) and what the emitter
\* returns; for a CallResult, what its result handler returns; nothing for
\* any other envelope
HandlerOutcomesFor(r, m) ==
    IF m.MessageType = MessageTypeCall
    THEN IF m.Action \notin DOMAIN r.CallRoutes THEN HandlerOutcomes
         ELSE IF r.CallRoutes[m.Action].Handler.type = "handlers16.AuthorizeHandler"
         THEN FindTokenOutcomes
         ELSE IF r.CallRoutes[m.Action].Handler.type \in HeartbeatHandlers
         THEN ClockOutcomes
         ELSE HandlerOutcomes
    ELSE IF m.MessageType = MessageTypeCallResult THEN ResultHandlerOutcomes
    ELSE {[resp |-> "nil", body |-> NilBody, err |-> FALSE]}

EmitOutcomesFor(m) ==
    IF m.MessageType = MessageTypeCall THEN EmitOutcomes ELSE {TRUE}

\* route.Handler.HandleCall(ctx, chargeStationId, req): (response, error)
HandleCallResponse(route, ho) ==
    IF ho.resp = "nil" THEN NilResponse
    ELSE [type |-> route.Handler.type, body |-> ho.body,
          schema |-> IF ho.resp = "invalid" THEN "none" ELSE route.ResponseSchema,
          marshals |-> ho.resp # "unmarshalable",
          status |-> "", currentTime |-> <<>>]

HandlerErr(ho) == IF ho.err THEN ErrorsNew("HandlerError") ELSE NoError

\* the statuses of ocpp16.AuthorizeResponseJsonIdTagInfo
AuthorizeResponseJsonIdTagInfoStatusAccepted == "Accepted"
AuthorizeResponseJsonIdTagInfoStatusInvalid == "Invalid"

\* &types.AuthorizeResponseJson{IdTagInfo: {Status: status}}
AuthorizeResponseJson(status) ==
    [type |-> "ocpp16.AuthorizeResponseJson", body |-> NilBody,
     schema |-> "ocpp16/AuthorizeResponse.json", marshals |-> TRUE,
     status |-> status, currentTime |-> <<>>]

\* a.TokenStore.FindToken("ISO14443", req.IdTag): the invocation, with what
\* the store returned
FindToken(tokenType, tokenId, fo) ==
    [service |-> "TokenStore.FindToken", tokenType |-> tokenType,
     tokenId |-> tokenId, tok |-> fo.tok,
     err |-> IF fo.err THEN ErrorsNew("TokenStoreError") ELSE NoError]

\* what a handler invocation did: the response and error returned and the
\* invocations of injected services made
Handled(resp, e, services) == [resp |-> resp, err |-> e, services |-> services]

\* a variant of AuthorizeHandleCall with the two statuses exchanged
AuthorizeHandleCallSwapped(cs, request, fo) ==
    LET find == FindToken("ISO14443", request.body, fo)
    IN  IF find.err # NoError THEN Handled(NilResponse, find.err, <<find>>)
        ELSE Handled(AuthorizeResponseJson(
                        IF find.tok
                        THEN AuthorizeResponseJsonIdTagInfoStatusInvalid
                        ELSE AuthorizeResponseJsonIdTagInfoStatusAccepted),
                     NoError, <<find>>)

\* a variant of AuthorizeHandleCall that answers Invalid when the lookup fails
AuthorizeHandleCallSwallow(cs, request, fo) ==
    LET find == FindToken("ISO14443", request.body, fo)
    IN  Handled(AuthorizeResponseJson(
                    IF find.tok /\ find.err = NoError
                    THEN AuthorizeResponseJsonIdTagInfoStatusAccepted
                    ELSE AuthorizeResponseJsonIdTagInfoStatusInvalid),
                NoError, <<find>>)

\* func (a AuthorizeHandler) HandleCall(ctx, chargeStationId, request) of
\* handlers/ocpp16; req.IdTag is the body of the typed request
AuthorizeHandleCall(cs, request, fo) ==
    LET find == FindToken("ISO14443", request.body, fo)
    IN  IF find.err # NoError THEN Handled(NilResponse, find.err, <<find>>)
        ELSE Handled(AuthorizeResponseJson(
                        IF find.tok
                        THEN AuthorizeResponseJsonIdTagInfoStatusAccepted
                        ELSE AuthorizeResponseJsonIdTagInfoStatusInvalid),
                     NoError, <<find>>)

\* absolute value and sign of a zone offset
Abs(n) == IF n < 0 THEN -n ELSE n
Sign(n) == IF n < 0 THEN -1 ELSE IF n > 0 THEN 1 ELSE 0

\* t.Format(time.RFC3339): the wall-clock date (days since 2023-06-15) and
\* time in the zone of t, then the zone: <<day, hour, minute, sign, zone
\* hours, zone minutes>>, with sign 1 for "+hh:mm", -1 for "-hh:mm" and 0 for
\* "Z", which Go writes for UTC
FormatRFC3339(t) ==
    LET local == t.unix + t.offset
    IN  <<local \div 1440, (local % 1440) \div 60, local % 60,
          Sign(t.offset), Abs(t.offset) \div 60, Abs(t.offset) % 60>>

\* a variant of FormatRFC3339 that converts to UTC first
FormatRFC3339UTC(t) ==
    <<t.unix \div 1440, (t.unix % 1440) \div 60, t.unix % 60, 0, 0, 0>>

\* time.Parse(time.RFC3339, s): the instant and zone offset a formatted time
\* denotes
ParseRFC3339(s) ==
    LET offset == s[4] * (s[5] * 60 + s[6])
    IN  [unix |-> s[1] * 1440 + s[2] * 60 + s[3] - offset, offset |-> offset]

\* clock.Now(): the invocation, with the time the clock returned
ClockNow(co) == [service |-> "Clock.Now", now |-> co.now]

\* &types.HeartbeatResponseJson{CurrentTime: currentTime}
HeartbeatResponseJson(type, schema, currentTime) ==
    [type |-> type, body |-> NilBody, schema |-> schema, marshals |-> TRUE,
     status |-> "", currentTime |-> currentTime]

\* a variant of Heartbeat201HandleCall that reports the time in UTC
Heartbeat201HandleCallUTC(cs, request, co) ==
    Handled(HeartbeatResponseJson("ocpp201.HeartbeatResponseJson",
                                  "ocpp201/HeartbeatResponse.json",
                                  FormatRFC3339UTC(ClockNow(co).now)),
            NoError, <<ClockNow(co)>>)

\* HeartbeatHandler.HandleCall of handlers/ocpp201:
\* currentTime = clock.Now() in RFC 3339 form
Heartbeat201HandleCall(cs, request, co) ==
    Handled(HeartbeatResponseJson("ocpp201.HeartbeatResponseJson",
                                  "ocpp201/HeartbeatResponse.json",
                                  FormatRFC3339(ClockNow(co).now)),
            NoError, <<ClockNow(co)>>)

\* HeartbeatHandler.HandleCall of handlers/ocpp16
Heartbeat16HandleCall(cs, request, co) ==
    Handled(HeartbeatResponseJson("ocpp16.HeartbeatResponseJson",
                                  "ocpp16/HeartbeatResponse.json",
                                  FormatRFC3339(ClockNow(co).now)),
            NoError, <<ClockNow(co)>>)

\* the response TestHeartbeatHandler wants for the clock fixed at TestNow:
\* CurrentTime "2023-06-15T15:05:00+01:00"
TestWant == <<0, 15, 5, 1, 1, 0>>

\* route.Handler.HandleCall(ctx, chargeStationId, req), by the type of the
\* route's handler
HandleCall(route, cs, req, ho) ==
    IF route.Handler.type = "handlers16.AuthorizeHandler"
    THEN AuthorizeHandleCall(cs, req, ho)
    ELSE IF route.Handler.type = "handlers201.HeartbeatHandler"
    THEN Heartbeat201HandleCall(cs, req, ho)
    ELSE IF route.Handler.type = "handlers16.HeartbeatHandler"
    THEN Heartbeat16HandleCall(cs, req, ho)
    ELSE Handled(HandleCallResponse(route, ho), HandlerErr(ho), <<>>)

\* emitter.Emit(ctx, chargeStationId, out): error
EmitErr(eo) == IF eo THEN NoError ELSE ErrorsNew("EmitError")

(***************************************************************************)
(* Router.Route                                                            *)
(***************************************************************************)
\* what one invocation of Route did: the error returned, the handler
\* invocations made and the Emit invocations made, in order, and the lines
\* written with log.Printf
Outcome(e, calls, emits, logs) ==
    [err |-> e, handlerCalls |-> calls, emitted |-> emits, logged |-> logs]

\* the uninitialised `var validationErr *jsonschema.ValidationError` handed to
\* errors.As as its first argument: a non-nil error interface holding a nil
\* pointer of that type
validationErr == <<[type |-> "jsonschema.ValidationError", info |-> "nil pointer"]>>

\* a variant of CoerceValidationError that leaves every error as it is
NoCoerceValidationError(e) == e

\* if errors.As(validationErr, &validationErr) { err = NewError(FormatViolation, err) }

CoerceValidationError(e) ==
    IF ErrorsAs(validationErr, "jsonschema.ValidationError")
    THEN NewError(ErrorFormatViolation, e)
    ELSE e

\* a variant of ErrCallNotImplemented without the OCPP code
UncodedCallNotImplemented(m) ==
    ErrorfW("routing request", ErrorsNew("not implemented"))

\* the error of a Call whose Action has no route

ErrCallNotImplemented(m) ==
    ErrorfW("routing request",
            NewError(ErrorNotImplemented, ErrorsNew("not implemented")))

\* a variant of ErrCallResultNotImplemented without the OCPP code
UncodedCallResultNotImplemented(m) ==
    ErrorfW("routing request", ErrorsNew("result not implemented"))

\* the error of a CallResult whose Action has no result route

ErrCallResultNotImplemented(m) ==
    ErrorfW("routing request",
            NewError(ErrorNotImplemented, ErrorsNew("result not implemented")))

\* resp, err := route.Handler.HandleCall(ctx, chargeStationId, req): the
\* invocation, with what the handler returned
CallHandlerInvocation(route, cs, req, ho) ==
    [op |-> "HandleCall", handler |-> route.Handler, chargeStationId |-> cs,
     request |-> req, response |-> NilValue, state |-> NilState,
     ret |-> HandleCall(route, cs, req, ho).resp,
     reterr |-> HandleCall(route, cs, req, ho).err,
     services |-> HandleCall(route, cs, req, ho).services]

\* a variant of ResultHandlerInvocation that drops the envelope's State
ResultHandlerInvocationNoState(route, cs, req, resp, m, ho) ==
    [op |-> "HandleCallResult", handler |-> route.Handler, chargeStationId |-> cs,
     request |-> req, response |-> resp, state |-> NilState,
     ret |-> NilResponse, reterr |-> HandlerErr(ho), services |-> <<>>]

\* err = route.Handler.HandleCallResult(ctx, chargeStationId, req, resp,
\* message.State): the invocation, with what the handler returned
ResultHandlerInvocation(route, cs, req, resp, m, ho) ==
    [op |-> "HandleCallResult", handler |-> route.Handler, chargeStationId |-> cs,
     request |-> req, response |-> resp, state |-> m.State,
     ret |-> NilResponse, reterr |-> HandlerErr(ho), services |-> <<>>]

\* a variant of CallResultMessage that does not copy the Call's MessageId
CallResultMessageFreshId(m, responseJson) ==
    [MessageType |-> MessageTypeCallResult, Action |-> m.Action,
     MessageId |-> 0, RequestPayload |-> NilPayload,
     ResponsePayload |-> responseJson, State |-> NilState]

\* out := &Message{...}: the envelope answering a Call
CallResultMessage(m, responseJson) ==
    [MessageType |-> MessageTypeCallResult, Action |-> m.Action,
     MessageId |-> m.MessageId, RequestPayload |-> NilPayload,
     ResponsePayload |-> responseJson, State |-> NilState]

\* log.Printf("warning: response to %s is not valid: %v", ...) when the
\* serialized response fails validation
ResponseWarning(verr) ==
    IF verr # NoError
    THEN <<NewError(ErrorPropertyConstraintViolation, verr)>>
    ELSE <<>>

\* a variant of EmitCallResult that returns the response validation failure
\* instead of emitting
StrictEmitCallResult(route, cs, m, fs, responseJson, calls, eo) ==
    LET verr == Validate(responseJson, fs, route.ResponseSchema)
        out == CallResultMessage(m, responseJson)
        emits == <<[chargeStationId |-> cs, message |-> out, ok |-> eo]>>
    IN  IF verr # NoError
        THEN Outcome(NewError(ErrorPropertyConstraintViolation, verr), calls, <<>>,
                     ResponseWarning(verr))
        ELSE IF EmitErr(eo) # NoError
        THEN Outcome(ErrorfW("sending call response", EmitErr(eo)), calls, emits, <<>>)
        ELSE Outcome(NoError, calls, emits, <<>>)

\* the tail of the Call case: validate the serialized response (a failure is
\* only logged), build the envelope, emit it
EmitCallResult(route, cs, m, fs, responseJson, calls, eo) ==
    LET verr == Validate(responseJson, fs, route.ResponseSchema)
        out == CallResultMessage(m, responseJson)
        emits == <<[chargeStationId |-> cs, message |-> out, ok |-> eo]>>
    IN  IF EmitErr(eo) # NoError
        THEN Outcome(ErrorfW("sending call response", EmitErr(eo)), calls, emits,
                     ResponseWarning(verr))
        ELSE Outcome(NoError, calls, emits, ResponseWarning(verr))

\* a variant of RouteCall that wraps the error of the handler
RouteCallWrapsHandlerError(r, cs, m, fs, ho, eo) ==
    IF m.Action \notin DOMAIN r.CallRoutes
    THEN Outcome(ErrCallNotImplemented(m), <<>>, <<>>, <<>>)
    ELSE
    LET route == r.CallRoutes[m.Action]
        verr == Validate(m.RequestPayload, fs, route.RequestSchema)
        req == Unmarshal(m.RequestPayload, route.NewRequest)
        uerr == UnmarshalErr(m.RequestPayload)
        calls == <<CallHandlerInvocation(route, cs, req, ho)>>
        resp == HandleCall(route, cs, req, ho).resp
        herr == HandleCall(route, cs, req, ho).err
    IN  IF verr # NoError
        THEN Outcome(ErrorfW("validating request", CoerceValidationError(verr)),
                     <<>>, <<>>, <<>>)
        ELSE IF uerr # NoError
        THEN Outcome(ErrorfW("unmarshalling request payload", uerr), <<>>, <<>>, <<>>)
        ELSE IF herr # NoError
        THEN Outcome(ErrorfW("handling call", herr), calls, <<>>, <<>>)
        ELSE IF resp = NilResponse
        THEN Outcome(ErrorsNew("no response or error"), calls, <<>>, <<>>)
        ELSE IF MarshalErr(resp) # NoError
        THEN Outcome(ErrorfW("marshalling call response", MarshalErr(resp)),
                     calls, <<>>, <<>>)
        ELSE EmitCallResult(route, cs, m, fs, Marshal(resp), calls, eo)

\* case MessageTypeCall
RouteCall(r, cs, m, fs, ho, eo) ==
    IF m.Action \notin DOMAIN r.CallRoutes
    THEN Outcome(ErrCallNotImplemented(m), <<>>, <<>>, <<>>)
    ELSE
    LET route == r.CallRoutes[m.Action]
        verr == Validate(m.RequestPayload, fs, route.RequestSchema)
        req == Unmarshal(m.RequestPayload, route.NewRequest)
        uerr == UnmarshalErr(m.RequestPayload)
        calls == <<CallHandlerInvocation(route, cs, req, ho)>>
        resp == HandleCall(route, cs, req, ho).resp
        herr == HandleCall(route, cs, req, ho).err
    IN  IF verr # NoError
        THEN Outcome(ErrorfW("validating request", CoerceValidationError(verr)),
                     <<>>, <<>>, <<>>)
        ELSE IF uerr # NoError
        THEN Outcome(ErrorfW("unmarshalling request payload", uerr), <<>>, <<>>, <<>>)
        ELSE IF herr # NoError
        THEN Outcome(herr, calls, <<>>, <<>>)
        ELSE IF resp = NilResponse
        THEN Outcome(ErrorsNew("no response or error"), calls, <<>>, <<>>)
        ELSE IF MarshalErr(resp) # NoError
        THEN Outcome(ErrorfW("marshalling call response", MarshalErr(resp)),
                     calls, <<>>, <<>>)
        ELSE EmitCallResult(route, cs, m, fs, Marshal(resp), calls, eo)

\* a variant of RouteCallResult that does not validate the ResponsePayload
RouteCallResultUnvalidated(r, cs, m, fs, ho) ==
    IF m.Action \notin DOMAIN r.CallResultRoutes
    THEN Outcome(ErrCallResultNotImplemented(m), <<>>, <<>>, <<>>)
    ELSE
    LET route == r.CallResultRoutes[m.Action]
        vreq == Validate(m.RequestPayload, fs, route.RequestSchema)
        req == Unmarshal(m.RequestPayload, route.NewRequest)
        ureq == UnmarshalErr(m.RequestPayload)
        resp == Unmarshal(m.ResponsePayload, route.NewResponse)
        uresp == UnmarshalErr(m.ResponsePayload)
        calls == <<ResultHandlerInvocation(route, cs, req, resp, m, ho)>>
        herr == HandlerErr(ho)
    IN  IF vreq # NoError
        THEN Outcome(ErrorfW("validating request", vreq), <<>>, <<>>, <<>>)
        ELSE IF ureq # NoError
        THEN Outcome(ErrorfW("unmarshalling request payload", ureq), <<>>, <<>>, <<>>)
        ELSE IF uresp # NoError
        THEN Outcome(ErrorfV("unmarshalling response payload", uresp), <<>>, <<>>, <<>>)
        ELSE IF herr # NoError
        THEN Outcome(herr, calls, <<>>, <<>>)
        ELSE Outcome(NoError, calls, <<>>, <<>>)

\* case MessageTypeCallResult
RouteCallResult(r, cs, m, fs, ho) ==
    IF m.Action \notin DOMAIN r.CallResultRoutes
    THEN Outcome(ErrCallResultNotImplemented(m), <<>>, <<>>, <<>>)
    ELSE
    LET route == r.CallResultRoutes[m.Action]
        vreq == Validate(m.RequestPayload, fs, route.RequestSchema)
        vresp == Validate(m.ResponsePayload, fs, route.ResponseSchema)
        req == Unmarshal(m.RequestPayload, route.NewRequest)
        ureq == UnmarshalErr(m.RequestPayload)
        resp == Unmarshal(m.ResponsePayload, route.NewResponse)
        uresp == UnmarshalErr(m.ResponsePayload)
        calls == <<ResultHandlerInvocation(route, cs, req, resp, m, ho)>>
        herr == HandlerErr(ho)
    IN  IF vreq # NoError
        THEN Outcome(ErrorfW("validating request", vreq), <<>>, <<>>, <<>>)
        ELSE IF vresp # NoError
        THEN Outcome(ErrorfW("validating response", CoerceValidationError(vresp)),
                     <<>>, <<>>, <<>>)
        ELSE IF ureq # NoError
        THEN Outcome(ErrorfW("unmarshalling request payload", ureq), <<>>, <<>>, <<>>)
        ELSE IF uresp # NoError
        THEN Outcome(ErrorfV("unmarshalling response payload", uresp), <<>>, <<>>, <<>>)
        ELSE IF herr # NoError
        THEN Outcome(herr, calls, <<>>, <<>>)
        ELSE Outcome(NoError, calls, <<>>, <<>>)

\* case MessageTypeCallError
RouteCallError(r, cs, m) ==
    Outcome(ErrorsNew("we shouldn't get here at the moment"), <<>>, <<>>, <<>>)

\* a variant of Route that rejects a MessageType it does not know
RouteRejectsUnknownType(r, cs, m, fs, ho, eo) ==
    IF m.MessageType = MessageTypeCall THEN RouteCall(r, cs, m, fs, ho, eo)
    ELSE IF m.MessageType = MessageTypeCallResult THEN RouteCallResult(r, cs, m, fs, ho)
    ELSE IF m.MessageType = MessageTypeCallError THEN RouteCallError(r, cs, m)
    ELSE Outcome(ErrorsNew("unknown message type"), <<>>, <<>>, <<>>)

\* func (r Router) Route(ctx, chargeStationId, message, emitter, schemaFS) error
Route(r, cs, m, fs, ho, eo) ==
    IF m.MessageType = MessageTypeCall THEN RouteCall(r, cs, m, fs, ho, eo)
    ELSE IF m.MessageType = MessageTypeCallResult THEN RouteCallResult(r, cs, m, fs, ho)
    ELSE IF m.MessageType = MessageTypeCallError THEN RouteCallError(r, cs, m)
    ELSE Outcome(NoError, <<>>, <<>>, <<>>)

(***************************************************************************)
(* The envelopes a worker may be handed, and the worker's loop             *)
(***************************************************************************)
\* the Actions of the envelopes delivered: routed as a Call by both routers
\* (Heartbeat, Authorize), as a Call and a CallResult by v1.6 only
\* (DataTransfer), as a CallResult by v2.0.1 only (CertificateSigned), by
\* neither (Frobnicate)
MsgActions == {"Heartbeat", "Authorize", "DataTransfer", "CertificateSigned",
               "Frobnicate"}

RouteSchemas(route) == {route.RequestSchema, route.ResponseSchema} \ {""}

\* the schemas router r binds to an Action, in either table
SchemasOf(r, action) ==
    (IF action \in DOMAIN r.CallRoutes
     THEN RouteSchemas(r.CallRoutes[action]) ELSE {})
    \cup
    (IF action \in DOMAIN r.CallResultRoutes
     THEN RouteSchemas(r.CallResultRoutes[action]) ELSE {})

AllSchemas ==
    UNION {UNION {SchemasOf(r, a) :
                    a \in DOMAIN r.CallRoutes \cup DOMAIN r.CallResultRoutes} :
           r \in Routers}
    \cup
    UNION {UNION {RouteSchemas(V16DataTransferCallRoutes[v][a]) :
                    a \in DOMAIN V16DataTransferCallRoutes[v]} :
           v \in DOMAIN V16DataTransferCallRoutes}
    \cup
    UNION {UNION {RouteSchemas(V16DataTransferCallResultRoutes[v][a]) :
                    a \in DOMAIN V16DataTransferCallResultRoutes[v]} :
           v \in DOMAIN V16DataTransferCallResultRoutes}

\* payloads: bytes that conform to one of the schemas, or to none
PayloadsOver(schemas) ==
    [schema : schemas \cup {"none"}, decodes : BOOLEAN, body : Bodies]

\* the schema file systems: every schema loads but at most MaxMissingSchemas
\* of those the envelope may need
SchemaFSs(schemas) ==
    {AllSchemas \ missing : missing \in
        {x \in SUBSET schemas : Cardinality(x) <= MaxMissingSchemas}}

Envelope(type, action, id, req, resp, state) ==
    [MessageType |-> type, Action |-> action, MessageId |-> id,
     RequestPayload |-> req, ResponsePayload |-> resp, State |-> state]

\* RequestPayload is present for Call and CallResult, ResponsePayload for
\* CallResult and CallError
EnvelopesOver(action, schemas) ==
    {Envelope(MessageTypeCall, action, id, req, NilPayload, st) :
        id \in MessageIds, req \in PayloadsOver(schemas), st \in States}
    \cup
    {Envelope(MessageTypeCallResult, action, id, p[1], p[2], st) :
        id \in MessageIds, p \in PayloadsOver(schemas) \X PayloadsOver(schemas),
        st \in States}
    \cup
    {Envelope(MessageTypeCallError, action, id, NilPayload, resp, st) :
        id \in MessageIds, resp \in PayloadsOver(schemas), st \in States}
    \cup
    {Envelope(MessageTypeOther, action, id, NilPayload, NilPayload, st) :
        id \in MessageIds, st \in States}

NoEnvelope == Envelope(MessageTypeOther, "", 0, NilPayload, NilPayload, NilState)

Router == [CallRoutes |-> CallRoutes, CallResultRoutes |-> CallResultRoutes]

\* the pool of workers
Workers == 1..NumWorkers

\* a worker of the pool that holds no envelope
IdleWorker ==
    [pc |-> "idle", chargeStationId |-> 0, message |-> NoEnvelope, seq |-> 0]

Init ==
    /\ \E r \in Routers :
         /\ CallRoutes = r.CallRoutes
         /\ CallResultRoutes = r.CallResultRoutes
    /\ pc = "idle"
    /\ chargeStationId = 0
    /\ message = NoEnvelope
    /\ schemaFS = {}
    /\ handlerCalls = <<>>
    /\ emitted = <<>>
    /\ logged = <<>>
    /\ err = NoError
    /\ workers = [w \in Workers |-> IdleWorker]
    /\ delivered = 0
    /\ observed = <<>>

\* the transport hands a worker an envelope for a charge station
Receive ==
    /\ pc = "idle"
    /\ \E cs \in ChargeStationIds, action \in MsgActions :
         \E m \in EnvelopesOver(action, SchemasOf(Router, action)),
            fs \in SchemaFSs(SchemasOf(Router, action)) :
            /\ chargeStationId' = cs
            /\ message' = m
            /\ schemaFS' = fs
    /\ pc' = "received"
    /\ UNCHANGED <<CallRoutes, CallResultRoutes, handlerCalls, emitted, logged, err>>
    /\ UNCHANGED poolVars

\* a variant of RouteEnvelope that drops the route of a Call it has served
RouteEnvelopeDropsRoute ==
    /\ pc = "received"
    /\ \E ho \in HandlerOutcomesFor(Router, message), eo \in EmitOutcomesFor(message) :
         LET out == Route(Router, chargeStationId, message, schemaFS, ho, eo)
         IN  /\ err' = out.err
             /\ handlerCalls' = out.handlerCalls
             /\ emitted' = out.emitted
             /\ logged' = out.logged
             /\ CallRoutes' =
                  IF message.MessageType = MessageTypeCall /\ out.emitted # <<>>
                  THEN [a \in DOMAIN CallRoutes \ {message.Action} |-> CallRoutes[a]]
                  ELSE CallRoutes
    /\ pc' = "routed"
    /\ UNCHANGED <<CallResultRoutes, chargeStationId, message, schemaFS>>
    /\ UNCHANGED poolVars

\* the worker calls Route on the envelope
RouteEnvelope ==
    /\ pc = "received"
    /\ \E ho \in HandlerOutcomesFor(Router, message), eo \in EmitOutcomesFor(message) :
         LET out == Route(Router, chargeStationId, message, schemaFS, ho, eo)
         IN  /\ err' = out.err
             /\ handlerCalls' = out.handlerCalls
             /\ emitted' = out.emitted
             /\ logged' = out.logged
    /\ pc' = "routed"
    /\ UNCHANGED <<CallRoutes, CallResultRoutes, chargeStationId, message, schemaFS>>
    /\ UNCHANGED poolVars

\* the worker is done with the envelope and waits for the next one
Done ==
    /\ pc = "routed"
    /\ pc' = "idle"
    /\ chargeStationId' = 0
    /\ message' = NoEnvelope
    /\ schemaFS' = {}
    /\ handlerCalls' = <<>>
    /\ emitted' = <<>>
    /\ logged' = <<>>
    /\ err' = NoError
    /\ UNCHANGED <<CallRoutes, CallResultRoutes>>
    /\ UNCHANGED poolVars

Next == Receive \/ RouteEnvelope \/ Done

Spec == Init /\ [][Next]_vars

(***************************************************************************)
(* The pool of workers: each worker calls Route on the envelope the        *)
(* transport handed it, independently of the others.  Route holds no lock  *)
(* and keeps no per-station queue, so nothing in it orders two calls.  A   *)
(* call of Route that reaches a handler is two steps, the invocation of    *)
(* the handler and its return, since a handler may suspend on storage and  *)
(* on external services.                                                   *)
(***************************************************************************)
\* the envelopes the transport delivers to the pool: Calls of a routed and
\* of an unrouted Action, with a payload that conforms to the request schema
\* or to none; every schema loads
PoolActions == {"Heartbeat", "Frobnicate"}

PoolEnvelopes(r) ==
    UNION {{Envelope(MessageTypeCall, action, id,
                     [schema |-> sch, decodes |-> TRUE, body |-> 1],
                     NilPayload, NilState) :
              id \in MessageIds,
              sch \in (IF action \in DOMAIN r.CallRoutes
                       THEN {r.CallRoutes[action].RequestSchema} ELSE {})
                      \cup {"none"}} :
           action \in PoolActions}

\* Route on the envelope reaches the invocation of a handler; what the
\* handler and the emitter return afterwards has no part in that
Invokes(r, cs, m) ==
    LET ho == CHOOSE h \in HandlerOutcomesFor(r, m) : TRUE
        eo == CHOOSE e \in EmitOutcomesFor(m) : TRUE
    IN  Len(Route(r, cs, m, AllSchemas, ho, eo).handlerCalls) = 1

\* a step of a handler, as the handlers of the pool observe them: the
\* invocation, or the return, after which Route ends with error e having
\* emitted n envelopes
HandlerEvent(ev, worker, e, n) ==
    [ev |-> ev, seq |-> worker.seq, chargeStationId |-> worker.chargeStationId,
     err |-> e, emitted |-> n]

\* the transport hands the next envelope to an idle worker
Take(w) ==
    /\ workers[w].pc = "idle"
    /\ delivered < MaxDeliveries
    /\ \E cs \in ChargeStationIds, m \in PoolEnvelopes(Router) :
         workers' = [workers EXCEPT ![w] =
                        [pc |-> "received", chargeStationId |-> cs,
                         message |-> m, seq |-> delivered + 1]]
    /\ delivered' = delivered + 1
    /\ UNCHANGED <<CallRoutes, CallResultRoutes, observed>>
    /\ UNCHANGED workerVars

\* the worker's call of Route returns without reaching a handler
Reject(w) ==
    /\ workers[w].pc = "received"
    /\ ~Invokes(Router, workers[w].chargeStationId, workers[w].message)
    /\ workers' = [workers EXCEPT ![w] = IdleWorker]
    /\ UNCHANGED <<CallRoutes, CallResultRoutes, delivered, observed>>
    /\ UNCHANGED workerVars

\* the worker's call of Route invokes the handler of the envelope's route
Dispatch(w) ==
    /\ workers[w].pc = "received"
    /\ Invokes(Router, workers[w].chargeStationId, workers[w].message)
    /\ workers' = [workers EXCEPT ![w].pc = "handling"]
    /\ observed' = Append(observed, HandlerEvent("invoke", workers[w], NoError, 0))
    /\ UNCHANGED <<CallRoutes, CallResultRoutes, delivered>>
    /\ UNCHANGED workerVars

\* the handler returns, and Route with it
Complete(w) ==
    /\ workers[w].pc = "handling"
    /\ \E ho \in HandlerOutcomesFor(Router, workers[w].message),
          eo \in EmitOutcomesFor(workers[w].message) :
         LET out == Route(Router, workers[w].chargeStationId,
                          workers[w].message, AllSchemas, ho, eo)
         IN  observed' = Append(observed,
                                HandlerEvent("complete", workers[w], out.err,
                                             Len(out.emitted)))
    /\ workers' = [workers EXCEPT ![w] = IdleWorker]
    /\ UNCHANGED <<CallRoutes, CallResultRoutes, delivered>>
    /\ UNCHANGED workerVars

NextPool == \E w \in Workers : Take(w) \/ Reject(w) \/ Dispatch(w) \/ Complete(w)

SpecPool == Init /\ [][NextPool]_vars

(***************************************************************************)
(* The v1.6 ReservationResultHandler.  Neither constructor binds it to a   *)
(* route, so besides the worker's loop the handler is called directly, on  *)
(* every typed request, response and State.                                *)
(***************************************************************************)
ReservationStatusAccepted == "Accepted"
ReservationStatusFaulted == "Faulted"
ReservationStatusOccupied == "Occupied"
ReservationStatusRejected == "Rejected"
ReservationStatusUnavailable == "Unavailable"

ReservationStatuses ==
    {ReservationStatusAccepted, ReservationStatusFaulted, ReservationStatusOccupied,
     ReservationStatusRejected, ReservationStatusUnavailable}

\* *ocpp16.Reservation values, and the requests of another type
Reservations == [type : {"ocpp16.Reservation"}, body : Bodies]
OtherRequests == [type : {"ocpp16.DataTransferJson"}, body : Bodies]

\* *ocpp16.ReservationResponse values, and the responses of another type
ReservationResponses ==
    [type : {"ocpp16.ReservationResponse"}, body : {NilBody},
     status : ReservationStatuses]
OtherResponses ==
    [type : {"ocpp16.DataTransferResponseJson"}, body : {NilBody}, status : {""}]

\* slog.Info("Handling Result for reservation: ", request, response)
SlogInfo(msg, req, resp) ==
    [level |-> "INFO", msg |-> msg, request |-> req, response |-> resp]

\* what a direct call of a result handler comes to: the error returned,
\* whether the call panicked instead of returning, and what it logged
ResultHandled(e, panics, logs) == [err |-> e, panics |-> panics, logs |-> logs]

\* a variant of ReservationHandleCallResult that fails on a reservation the
\* charge station did not accept
ReservationHandleCallResultStrict(cs, request, response, state) ==
    IF request.type # "ocpp16.Reservation" \/ response.type # "ocpp16.ReservationResponse"
    THEN ResultHandled(NoError, TRUE, <<>>)
    ELSE ResultHandled(IF response.status = ReservationStatusAccepted
                       THEN NoError ELSE ErrorsNew("reservation not accepted"),
                       FALSE,
                       <<SlogInfo("Handling Result for reservation: ", request, response)>>)

\* ReservationResultHandler.HandleCallResult: the two type assertions panic
\* on a value of another type; otherwise the handler logs and returns nil
ReservationHandleCallResult(cs, request, response, state) ==
    IF request.type # "ocpp16.Reservation" \/ response.type # "ocpp16.ReservationResponse"
    THEN ResultHandled(NoError, TRUE, <<>>)
    ELSE ResultHandled(NoError, FALSE,
                       <<SlogInfo("Handling Result for reservation: ", request, response)>>)

\* the invocation of the handler, with what it came to
ReservationInvocation(cs, request, response, state) ==
    [op |-> "HandleCallResult",
     handler |-> HandlerValue("handlers16.ReservationResultHandler", {}),
     chargeStationId |-> cs, request |-> request, response |-> response,
     state |-> state,
     ret |-> NilResponse,
     reterr |-> ReservationHandleCallResult(cs, request, response, state).err,
     panics |-> ReservationHandleCallResult(cs, request, response, state).panics,
     services |-> <<>>]

\* a caller invokes ReservationResultHandler.HandleCallResult
HandleReservationResult ==
    /\ pc = "idle"
    /\ \E cs \in ChargeStationIds,
          request \in Reservations \cup OtherRequests,
          response \in ReservationResponses \cup OtherResponses,
          state \in States :
         LET out == ReservationHandleCallResult(cs, request, response, state)
         IN  /\ chargeStationId' = cs
             /\ handlerCalls' = <<ReservationInvocation(cs, request, response, state)>>
             /\ logged' = out.logs
             /\ err' = out.err
    /\ pc' = "handled"
    /\ UNCHANGED <<CallRoutes, CallResultRoutes, message, schemaFS, emitted>>
    /\ UNCHANGED poolVars

\* the caller goes on
ReservationResultHandled ==
    /\ pc = "handled"
    /\ pc' = "idle"
    /\ chargeStationId' = 0
    /\ handlerCalls' = <<>>
    /\ logged' = <<>>
    /\ err' = NoError
    /\ UNCHANGED <<CallRoutes, CallResultRoutes, message, schemaFS, emitted>>
    /\ UNCHANGED poolVars

NextReservation == Next \/ HandleReservationResult \/ ReservationResultHandled

SpecReservation == Init /\ [][NextReservation]_vars

(***************************************************************************)
(* Properties of Route                                                     *)
(***************************************************************************)
Routed == pc = "routed"
IsCall == message.MessageType = MessageTypeCall
IsCallResult == message.MessageType = MessageTypeCallResult
IsCallError == message.MessageType = MessageTypeCallError
IsValidationError(e) == ErrorsAs(e, "jsonschema.ValidationError")

\* the validation results of the envelope in hand against a route's schemas
RequestValidation(route) ==
    Validate(message.RequestPayload, schemaFS, route.RequestSchema)
ResponseValidation(route) ==
    Validate(message.ResponsePayload, schemaFS, route.ResponseSchema)

\* C1: a Call whose Action has no entry in CallRoutes ends with an error
\* carrying NotImplemented, no handler invocation and no emitted envelope.
C1_UnroutedCallNotImplemented ==
    (Routed /\ IsCall /\ message.Action \notin DOMAIN CallRoutes)
    => /\ ErrorCode(err) = ErrorNotImplemented
       /\ handlerCalls = <<>>
       /\ emitted = <<>>

C1_Witness ==
    /\ Routed /\ IsCall /\ message.Action = "Frobnicate"
    /\ ErrorCode(err) = ErrorNotImplemented
    /\ emitted = <<>>

\* C2 (as claimed): for a Call with a routed Action, a request that violates
\* the request schema ends with an error carrying FormatViolation, and a
\* validation failure of any other kind is returned with no OCPP code and its
\* kind unchanged.
C2_RequestValidationKinds ==
    (Routed /\ IsCall /\ message.Action \in DOMAIN CallRoutes)
    => LET verr == RequestValidation(CallRoutes[message.Action])
       IN  /\ IsValidationError(verr) => ErrorCode(err) = ErrorFormatViolation
           /\ (verr # NoError /\ ~IsValidationError(verr))
              => /\ ErrorCode(err) = "none"
                 /\ RootCause(err) = RootCause(verr)

\* C3: when the handler of a Call returned a response whose serialization
\* fails validation against the response schema, Route still emits the
\* CallResult envelope carrying that response, and the only error it can
\* return is the emitter's.
C3_Case ==
    /\ Routed /\ IsCall /\ message.Action \in DOMAIN CallRoutes
    /\ Len(handlerCalls) = 1
    /\ handlerCalls[1].reterr = NoError
    /\ handlerCalls[1].ret # NilResponse
    /\ MarshalErr(handlerCalls[1].ret) = NoError
    /\ Validate(Marshal(handlerCalls[1].ret), schemaFS,
                CallRoutes[message.Action].ResponseSchema) # NoError

C3_InvalidResponseStillEmitted ==
    C3_Case
    => /\ Len(emitted) = 1
       /\ emitted[1].message.MessageType = MessageTypeCallResult
       /\ emitted[1].message.ResponsePayload.body = handlerCalls[1].ret.body
       /\ emitted[1].message.ResponsePayload.schema = handlerCalls[1].ret.schema
       /\ emitted[1].ok => err = NoError
       /\ ~emitted[1].ok => RootCause(err) = "errorString" /\ Head(err).info = "sending call response"

C3_Witness ==
    /\ C3_Case
    /\ handlerCalls[1].ret.schema = "none"
    /\ Len(emitted) = 1 /\ emitted[1].ok
    /\ err = NoError

\* C4: every envelope emitted in answer to a Call is a CallResult with the
\* Call's MessageId and Action, the serialized handler response as
\* ResponsePayload, emitted to the charge station the Call was routed for.
C4_EmittedEnvelopeAnswersCall ==
    (Routed /\ IsCall)
    => \A i \in 1..Len(emitted) :
         /\ emitted[i].message.MessageType = MessageTypeCallResult
         /\ emitted[i].message.MessageId = message.MessageId
         /\ emitted[i].message.Action = message.Action
         /\ Len(handlerCalls) = 1
         /\ emitted[i].message.ResponsePayload.body = handlerCalls[1].ret.body
         /\ emitted[i].message.ResponsePayload.schema = handlerCalls[1].ret.schema
         /\ emitted[i].message.ResponsePayload.decodes
         /\ emitted[i].chargeStationId = chargeStationId

C4_Witness ==
    /\ Routed /\ IsCall
    /\ chargeStationId = NumStations /\ message.MessageId = NumMessageIds
    /\ Len(emitted) = 1
    /\ emitted[1].message.MessageId = NumMessageIds
    /\ emitted[1].message.ResponsePayload.body = NumBodies
    /\ emitted[1].chargeStationId = NumStations

\* C5 (as claimed): when the call handler returns a nil response with a nil
\* error, Route returns an error carrying InternalError and emits nothing.
C5_NilResponseInternalError ==
    (/\ Routed /\ IsCall /\ Len(handlerCalls) = 1
     /\ handlerCalls[1].ret = NilResponse /\ handlerCalls[1].reterr = NoError)
    => /\ ErrorCode(err) = ErrorInternalError
       /\ emitted = <<>>

\* C6 (as claimed): a Call whose request passes schema validation but cannot
\* be deserialized ends with an error carrying FormatViolation, the handler
\* not invoked.
C6_DecodeFailureFormatViolation ==
    (/\ Routed /\ IsCall /\ message.Action \in DOMAIN CallRoutes
     /\ RequestValidation(CallRoutes[message.Action]) = NoError
     /\ ~message.RequestPayload.decodes)
    => /\ ErrorCode(err) = ErrorFormatViolation
       /\ handlerCalls = <<>>

\* C7: a CallResult whose Action has no entry in CallResultRoutes ends with an
\* error carrying NotImplemented and no handler invocation, also when the
\* Action is present in CallRoutes.
C7_UnroutedCallResultNotImplemented ==
    (Routed /\ IsCallResult /\ message.Action \notin DOMAIN CallResultRoutes)
    => /\ ErrorCode(err) = ErrorNotImplemented
       /\ handlerCalls = <<>>

C7_Witness ==
    /\ Routed /\ IsCallResult
    /\ message.Action \notin DOMAIN CallResultRoutes
    /\ message.Action \in DOMAIN CallRoutes
    /\ ErrorCode(err) = ErrorNotImplemented

\* C8 (as claimed): a CallResult with a routed Action whose ResponsePayload
\* violates the response schema ends with an error carrying FormatViolation,
\* the result handler not invoked.
C8_ResponseViolationFormatViolation ==
    (/\ Routed /\ IsCallResult /\ message.Action \in DOMAIN CallResultRoutes
     /\ IsValidationError(ResponseValidation(CallResultRoutes[message.Action])))
    => /\ ErrorCode(err) = ErrorFormatViolation
       /\ handlerCalls = <<>>

\* C8 (amended): a CallResult with a routed Action whose RequestPayload passes
\* validation and whose ResponsePayload violates the response schema ends
\* with an error carrying FormatViolation; whenever the ResponsePayload
\* violates the response schema the result handler is not invoked.
C8_Case ==
    /\ Routed /\ IsCallResult /\ message.Action \in DOMAIN CallResultRoutes
    /\ IsValidationError(ResponseValidation(CallResultRoutes[message.Action]))

C8_ValidRequestResponseViolation ==
    C8_Case
    => /\ handlerCalls = <<>>
       /\ RequestValidation(CallResultRoutes[message.Action]) = NoError
          => ErrorCode(err) = ErrorFormatViolation

C8_Witness ==
    /\ C8_Case
    /\ RequestValidation(CallResultRoutes[message.Action]) = NoError
    /\ ErrorCode(err) = ErrorFormatViolation

\* C9: a CallResult that passes lookup, both validations and both decodes has
\* its result handler invoked exactly once, with the envelope's
\* chargeStationId and exactly the State the envelope carries.
C9_Case ==
    /\ Routed /\ IsCallResult /\ message.Action \in DOMAIN CallResultRoutes
    /\ RequestValidation(CallResultRoutes[message.Action]) = NoError
    /\ ResponseValidation(CallResultRoutes[message.Action]) = NoError
    /\ message.RequestPayload.decodes
    /\ message.ResponsePayload.decodes

C9_ResultHandlerGetsState ==
    C9_Case
    => /\ Len(handlerCalls) = 1
       /\ handlerCalls[1].op = "HandleCallResult"
       /\ handlerCalls[1].handler = CallResultRoutes[message.Action].Handler
       /\ handlerCalls[1].chargeStationId = chargeStationId
       /\ handlerCalls[1].state = message.State

C9_Witness ==
    /\ C9_Case
    /\ message.State # NilState
    /\ Len(handlerCalls) = 1
    /\ handlerCalls[1].state = message.State
    /\ err = NoError

\* C10 (as claimed): a CallError envelope is logged and discarded: no handler
\* is invoked, nothing is emitted, and Route returns no error.
C10_CallErrorDiscarded ==
    (Routed /\ IsCallError)
    => /\ handlerCalls = <<>>
       /\ emitted = <<>>
       /\ err = NoError

(***************************************************************************)
(* Properties of the v1.6 Authorize handler                                *)
(***************************************************************************)
\* Route invoked the v1.6 Authorize handler on the envelope in hand
AuthorizeInvoked ==
    /\ Routed /\ IsCall /\ Len(handlerCalls) = 1
    /\ handlerCalls[1].handler.type = "handlers16.AuthorizeHandler"
    /\ Len(handlerCalls[1].services) = 1

\* C11: for every v1.6 Authorize request whose token-store lookup succeeds,
\* the handler looked up ("ISO14443", idTag) and the response status is
\* Accepted if and only if the lookup returned a token, Invalid otherwise.
C11_AuthorizeAcceptedIffToken ==
    (AuthorizeInvoked /\ handlerCalls[1].services[1].err = NoError)
    => LET find == handlerCalls[1].services[1]
           ret == handlerCalls[1].ret
       IN  /\ find.service = "TokenStore.FindToken"
           /\ find.tokenType = "ISO14443"
           /\ find.tokenId = message.RequestPayload.body
           /\ handlerCalls[1].reterr = NoError
           /\ ret.status \in {AuthorizeResponseJsonIdTagInfoStatusAccepted,
                              AuthorizeResponseJsonIdTagInfoStatusInvalid}
           /\ (ret.status = AuthorizeResponseJsonIdTagInfoStatusAccepted) <=> find.tok

C11_Witness ==
    /\ AuthorizeInvoked
    /\ handlerCalls[1].services[1].err = NoError
    /\ handlerCalls[1].services[1].tok
    /\ handlerCalls[1].services[1].tokenId = NumBodies
    /\ handlerCalls[1].ret.status = AuthorizeResponseJsonIdTagInfoStatusAccepted
    /\ Len(emitted) = 1
    /\ emitted[1].message.ResponsePayload.status = AuthorizeResponseJsonIdTagInfoStatusAccepted

\* C12: when the token-store lookup of a v1.6 Authorize fails, the handler
\* returns that error and no response, and Route returns the error and emits
\* no CallResult.
C12_AuthorizeLookupErrorPropagates ==
    (AuthorizeInvoked /\ handlerCalls[1].services[1].err # NoError)
    => /\ handlerCalls[1].ret = NilResponse
       /\ handlerCalls[1].reterr = handlerCalls[1].services[1].err
       /\ err = handlerCalls[1].services[1].err
       /\ emitted = <<>>

C12_Witness ==
    /\ AuthorizeInvoked
    /\ handlerCalls[1].services[1].err # NoError
    /\ RootCause(err) = "errorString" /\ Head(err).info = "TokenStoreError"
    /\ emitted = <<>>

(***************************************************************************)
(* Properties of the Heartbeat handler                                     *)
(***************************************************************************)
\* Route invoked a Heartbeat handler on the envelope in hand
HeartbeatInvoked ==
    /\ Routed /\ IsCall /\ Len(handlerCalls) = 1
    /\ handlerCalls[1].handler.type \in HeartbeatHandlers

\* C13: for every clock value and every charge station the Heartbeat handler
\* returns, without error, a response whose currentTime denotes the clock's
\* current instant in the clock's zone, written as a wall-clock time of day
\* and a zone offset (the response TestHeartbeatHandler wants for its clock);
\* all the handler does is read the clock.
C13_HeartbeatCurrentTime ==
    HeartbeatInvoked
    => LET ret == handlerCalls[1].ret
           services == handlerCalls[1].services
       IN  /\ handlerCalls[1].reterr = NoError
           /\ Len(services) = 1 /\ services[1].service = "Clock.Now"
           /\ Len(ret.currentTime) = 6
           /\ ParseRFC3339(ret.currentTime) = services[1].now
           /\ ret.currentTime[2] \in 0..23 /\ ret.currentTime[3] \in 0..59
           /\ ret.currentTime[5] \in 0..23 /\ ret.currentTime[6] \in 0..59
           /\ services[1].now = TestNow => ret.currentTime = TestWant

C13_Witness ==
    /\ HeartbeatInvoked
    /\ handlerCalls[1].handler.type = "handlers201.HeartbeatHandler"
    /\ chargeStationId = NumStations
    /\ handlerCalls[1].services[1].now = TestNow
    /\ handlerCalls[1].ret.currentTime = TestWant
    /\ Len(emitted) = 1
    /\ emitted[1].message.ResponsePayload.currentTime = TestWant

\* a Heartbeat in a zone west of UTC, after midnight UTC and before midnight
\* in the zone
C13_WitnessDateLine ==
    /\ HeartbeatInvoked
    /\ handlerCalls[1].services[1].now.offset < 0
    /\ handlerCalls[1].services[1].now.unix \div 1440 = 1
    /\ handlerCalls[1].ret.currentTime[1] = 0
    /\ handlerCalls[1].ret.currentTime[4] = -1

(***************************************************************************)
(* Ordering of the handlers of one charge station                          *)
(***************************************************************************)
\* C14: of two envelopes delivered in order for the same charge station, the
\* handler of the first is invoked and has completed before the handler of
\* the second is invoked, whatever the interleaving of the workers.
C14_PerStationOrder ==
    \A j \in 1..Len(observed) :
        observed[j].ev = "invoke"
        => \A i \in 1..Len(observed) :
              (/\ observed[i].ev = "invoke"
               /\ observed[i].chargeStationId = observed[j].chargeStationId
               /\ observed[i].seq < observed[j].seq)
              => /\ i < j
                 /\ \E k \in (i + 1)..(j - 1) :
                       /\ observed[k].ev = "complete"
                       /\ observed[k].seq = observed[i].seq

(***************************************************************************)
(* Properties of the route tables                                          *)
(***************************************************************************)
\* a route that has a request factory, both schema paths and a handler
Populated(route) ==
    /\ route.NewRequest # ""
    /\ route.RequestSchema # ""
    /\ route.ResponseSchema # ""
    /\ route.Handler.type # ""

\* C15: every entry of the router's CallRoutes and CallResultRoutes has a
\* request factory, a non-empty request schema path, a non-empty response
\* schema path and a handler, and every CallResultRoutes entry has a response
\* factory too.
C15_TablesFullyPopulated ==
    /\ \A a \in DOMAIN CallRoutes : Populated(CallRoutes[a])
    /\ \A a \in DOMAIN CallResultRoutes :
          /\ Populated(CallResultRoutes[a])
          /\ CallResultRoutes[a].NewResponse # ""

(***************************************************************************)
(* Properties of Route as a whole                                          *)
(***************************************************************************)
\* C16: a call handler is invoked only on a request decoded from a
\* RequestPayload that passed validation against the route's request schema;
\* a result handler is invoked only on a request and a response decoded from
\* payloads that both passed validation against the route's schemas.  So a
\* failed validation of a payload of the envelope and an invocation of a
\* handler never occur in the same call of Route.
C16_HandlersOnlyAfterValidation ==
    (Routed /\ handlerCalls # <<>>)
    => /\ Len(handlerCalls) = 1
       /\ IsCall \/ IsCallResult
       /\ IsCall
          => /\ message.Action \in DOMAIN CallRoutes
             /\ handlerCalls[1].op = "HandleCall"
             /\ RequestValidation(CallRoutes[message.Action]) = NoError
             /\ UnmarshalErr(message.RequestPayload) = NoError
             /\ handlerCalls[1].request =
                  [type |-> CallRoutes[message.Action].NewRequest,
                   body |-> message.RequestPayload.body]
       /\ IsCallResult
          => /\ message.Action \in DOMAIN CallResultRoutes
             /\ handlerCalls[1].op = "HandleCallResult"
             /\ RequestValidation(CallResultRoutes[message.Action]) = NoError
             /\ ResponseValidation(CallResultRoutes[message.Action]) = NoError
             /\ UnmarshalErr(message.RequestPayload) = NoError
             /\ UnmarshalErr(message.ResponsePayload) = NoError
             /\ handlerCalls[1].request =
                  [type |-> CallResultRoutes[message.Action].NewRequest,
                   body |-> message.RequestPayload.body]
             /\ handlerCalls[1].response =
                  [type |-> CallResultRoutes[message.Action].NewResponse,
                   body |-> message.ResponsePayload.body]

C16_Witness ==
    /\ Routed /\ IsCallResult
    /\ Len(handlerCalls) = 1
    /\ handlerCalls[1].op = "HandleCallResult"
    /\ ResponseValidation(CallResultRoutes[message.Action]) = NoError

\* a call handler invoked after the request passed validation
C16_WitnessCall ==
    /\ Routed /\ IsCall
    /\ Len(handlerCalls) = 1
    /\ handlerCalls[1].op = "HandleCall"
    /\ RequestValidation(CallRoutes[message.Action]) = NoError

(***************************************************************************)
(* The DataTransfer tunnel against the v2.0.1 router                       *)
(***************************************************************************)
\* the tunnel routes of the ISO 15118 vendor
PncTunnel == V16DataTransferCallRoutes["org.openchargealliance.iso15118pnc"]

PncTunnelActions ==
    {"Authorize", "GetCertificateStatus", "SignCertificate", "Get15118EVCertificate"}

\* the router in hand is the one NewV201Router builds
IsV201Router == CallRoutes = NewV201Router.CallRoutes

\* the fields of a handler value other than its call maker
ServicesOf(handler) == {f \in handler.fields : f[1] # "CallMaker"}

CallMakerOf(handler) == {f[2] : f \in {g \in handler.fields : g[1] = "CallMaker"}}

\* C17 as stated: for each of the four tunnelled Actions the tunnel route is
\* the v2.0.1 router's CallRoutes entry: same request type, request schema,
\* response schema and handler.
C17_TunnelRouteIsV201Route ==
    IsV201Router
    => /\ DOMAIN PncTunnel = PncTunnelActions
       /\ \A a \in PncTunnelActions :
             /\ a \in DOMAIN CallRoutes
             /\ PncTunnel[a] = CallRoutes[a]

\* C17 amended: for each of the four tunnelled Actions the tunnel route has
\* the request type, request schema, response schema and handler type of the
\* v2.0.1 router's CallRoutes entry, and its handler is given the same
\* services; the call maker of the SignCertificate handler is not the same:
\* the DataTransfer call maker in the tunnel, the basic one in v2.0.1.
C17_TunnelRouteMatchesV201Route ==
    IsV201Router
    => /\ DOMAIN PncTunnel = PncTunnelActions
       /\ \A a \in PncTunnelActions :
             /\ a \in DOMAIN CallRoutes
             /\ PncTunnel[a].NewRequest = CallRoutes[a].NewRequest
             /\ PncTunnel[a].RequestSchema = CallRoutes[a].RequestSchema
             /\ PncTunnel[a].ResponseSchema = CallRoutes[a].ResponseSchema
             /\ PncTunnel[a].Handler.type = CallRoutes[a].Handler.type
             /\ ServicesOf(PncTunnel[a].Handler) = ServicesOf(CallRoutes[a].Handler)
             /\ a # "SignCertificate"
                => PncTunnel[a].Handler = CallRoutes[a].Handler
       /\ CallMakerOf(PncTunnel["SignCertificate"].Handler) = {"dataTransferCallMaker"}
       /\ CallMakerOf(CallRoutes["SignCertificate"].Handler) = {"callMaker"}
       /\ dataTransferCallMaker # callMaker

\* the v2.0.1 router hands a direct Call of a tunnelled Action to the handler
\* type of the tunnel route, with a request of the tunnel route's type
C17_Witness ==
    /\ Routed /\ IsCall /\ IsV201Router
    /\ message.Action \in PncTunnelActions
    /\ Len(handlerCalls) = 1
    /\ handlerCalls[1].handler.type = PncTunnel[message.Action].Handler.type
    /\ handlerCalls[1].request.type = PncTunnel[message.Action].NewRequest
    /\ RequestValidation(PncTunnel[message.Action]) = NoError

(***************************************************************************)
(* Frame and outcome properties of Route                                   *)
(***************************************************************************)
\* C18: no step, and so no call of Route whatever the envelope and whatever
\* the outcome, adds, removes or changes an entry of CallRoutes or of
\* CallResultRoutes.
C18_TablesImmutable ==
    [][CallRoutes' = CallRoutes /\ CallResultRoutes' = CallResultRoutes]_vars

\* Route has served a Call and emitted its result, and the tables are those
\* of a constructor still
C18_Witness ==
    /\ Routed /\ IsCall
    /\ Len(handlerCalls) = 1 /\ Len(emitted) = 1 /\ err = NoError
    /\ Router \in Routers

\* the envelope is a Call with a routed Action whose request validated and
\* decoded and whose handler returned a response and no error
C19_Served ==
    /\ IsCall
    /\ message.Action \in DOMAIN CallRoutes
    /\ RequestValidation(CallRoutes[message.Action]) = NoError
    /\ UnmarshalErr(message.RequestPayload) = NoError
    /\ Len(handlerCalls) = 1
    /\ handlerCalls[1].ret # NilResponse
    /\ handlerCalls[1].reterr = NoError

\* what C19 says of the error of a handler, and of CallResult and CallError
C19_NoEmitOtherwise ==
    /\ Len(emitted) <= 1
    /\ (handlerCalls # <<>> /\ handlerCalls[1].reterr # NoError)
       => err = handlerCalls[1].reterr /\ emitted = <<>>
    /\ (IsCallResult \/ IsCallError) => emitted = <<>>

\* C19 as stated: a call of Route hands the emitter at most one envelope, and
\* one exactly when the envelope is a Call with a routed Action whose request
\* validated and decoded and whose handler returned a response and no error;
\* an error of the handler is returned as it is, with nothing emitted; nothing
\* is emitted for a CallResult or a CallError.
C19_EmitsIffServed ==
    Routed
    => /\ Len(emitted) = 1 <=> C19_Served
       /\ C19_NoEmitOtherwise

\* C19 amended: as above, but one envelope exactly when, besides, the
\* response of the handler serializes.
C19_EmitsIffServedAndMarshalled ==
    Routed
    => /\ Len(emitted) = 1
          <=> (C19_Served /\ MarshalErr(handlerCalls[1].ret) = NoError)
       /\ C19_NoEmitOtherwise

\* a served Call whose response does not serialize: nothing is emitted
C19_Witness ==
    /\ Routed /\ C19_Served
    /\ MarshalErr(handlerCalls[1].ret) # NoError
    /\ emitted = <<>>
    /\ err # NoError

\* a handler error returned as it is
C19_WitnessHandlerError ==
    /\ Routed /\ IsCall /\ Len(handlerCalls) = 1
    /\ handlerCalls[1].reterr # NoError
    /\ err = handlerCalls[1].reterr
    /\ emitted = <<>>

\* the MessageType of the envelope is none of Call, CallResult and CallError
IsOtherType ==
    message.MessageType \notin
        {MessageTypeCall, MessageTypeCallResult, MessageTypeCallError}

\* C20: for an envelope whose MessageType is none of Call, CallResult and
\* CallError, Route invokes no handler, emits nothing, logs nothing and
\* returns nil.
C20_OtherTypeDropped ==
    (Routed /\ IsOtherType)
    => /\ handlerCalls = <<>>
       /\ emitted = <<>>
       /\ logged = <<>>
       /\ err = NoError

\* such an envelope, for a routed Action, has been routed
C20_Witness ==
    /\ Routed /\ IsOtherType
    /\ message.Action \in DOMAIN CallRoutes
    /\ err = NoError

(***************************************************************************)
(* Properties of the v1.6 ReservationResultHandler                         *)
(***************************************************************************)
\* ReservationResultHandler.HandleCallResult has been called on a Reservation
\* and a ReservationResponse
ReservationHandled ==
    /\ pc = "handled"
    /\ Len(handlerCalls) = 1
    /\ handlerCalls[1].request \in Reservations
    /\ handlerCalls[1].response \in ReservationResponses

\* the handler types bound to a route, in the tables of the router in hand and
\* in the tunnel tables of the v1.6 DataTransfer handlers
BoundHandlerTypes ==
    {CallRoutes[a].Handler.type : a \in DOMAIN CallRoutes}
    \cup {CallResultRoutes[a].Handler.type : a \in DOMAIN CallResultRoutes}
    \cup UNION {{V16DataTransferCallRoutes[v][a].Handler.type :
                    a \in DOMAIN V16DataTransferCallRoutes[v]} :
                v \in DOMAIN V16DataTransferCallRoutes}
    \cup UNION {{V16DataTransferCallResultRoutes[v][a].Handler.type :
                    a \in DOMAIN V16DataTransferCallResultRoutes[v]} :
                v \in DOMAIN V16DataTransferCallResultRoutes}

\* C21: called on a Reservation and a ReservationResponse, whatever the
\* status of the response and whatever the State, the handler returns nil
\* without panicking, having logged the request and the response and done
\* nothing else: no service called, nothing emitted, the route tables as
\* constructed.  No route of either router is bound to the handler, and no
\* envelope routed by Route reaches it.
C21_ReservationResultOnlyLogs ==
    /\ ReservationHandled
       => /\ handlerCalls[1].reterr = NoError
          /\ ~handlerCalls[1].panics
          /\ err = NoError
          /\ logged = <<SlogInfo("Handling Result for reservation: ",
                                 handlerCalls[1].request, handlerCalls[1].response)>>
          /\ handlerCalls[1].services = <<>>
          /\ emitted = <<>>
          /\ Router \in Routers
    /\ "handlers16.ReservationResultHandler" \notin BoundHandlerTypes
    /\ Routed
       => \A i \in 1..Len(handlerCalls) :
             handlerCalls[i].handler.type # "handlers16.ReservationResultHandler"

\* the handler called on a rejected reservation with a State
C21_Witness ==
    /\ ReservationHandled
    /\ handlerCalls[1].response.status = ReservationStatusRejected
    /\ handlerCalls[1].state # NilState
    /\ handlerCalls[1].reterr = NoError
    /\ Len(logged) = 1

\* a CallResult that Route handed to the result handler of its route
C21_WitnessRouted ==
    /\ Routed /\ IsCallResult
    /\ Len(handlerCalls) = 1
    /\ handlerCalls[1].handler.type \in BoundHandlerTypes

====
